---- MODULE Spec2Model ----
(***************************************************************************)
(* The control/validation binding pipeline of leptos_form_tool.             *)
(*                                                                          *)
(* A form is built from a FormBuilder description: interactive controls,    *)
(* vanity controls and groups.  Every interactive control owns a            *)
(* ValidationState signal, a display-value signal and an Effect that        *)
(* recomputes the display value; the widget calls the value setter, the     *)
(* submit handler sweeps the validation callbacks, and the form's           *)
(* validator list validates a snapshot of the FormData.                     *)
(***************************************************************************)
EXTENDS Integers, Sequences, FiniteSets

VARIABLES
    fb,       \* the FormBuilder: validations, render_fns, and a panic if any
    cx,       \* FD::Context, fixed when the builder is created
    fd,       \* the RwSignal<FD> holding the FormData
    vstate,   \* per control: the ValidationState signal
    value,    \* per control: the display-value signal (value_getter)
    dirty,    \* per control: the Effect has been notified and not yet re-run
    ev        \* what the last handler did (observation only)

vars == <<fb, cx, fd, vstate, value, dirty, ev>>

(***************************************************************************)
(* Bounds                                                                   *)
(***************************************************************************)
\* largest value of the field type FDT (values are 0..MaxVal)
MaxVal == 1

\* most render functions a FormBuilder is given while it is being observed
MaxItems == 3

\* largest value of the field type in the round trip of parse_string
MaxRoundTrip == 120

\* most checks a ValidationBuilder is given
MaxChecks == 3

(***************************************************************************)
(* Values, raw strings, results                                             *)
(***************************************************************************)
Vals == 0..MaxVal

Digits == <<"0", "1", "2", "3", "4", "5", "6", "7", "8", "9">>

IsDigit(ch) == \E i \in 1..Len(Digits) : Digits[i] = ch

DigitVal(ch) == (CHOOSE i \in 1..Len(Digits) : Digits[i] = ch) - 1


Ok == [ok |-> TRUE, m |-> ""]

Err(m) == [ok |-> FALSE, m |-> m]

ParseOk(v) == [ok |-> TRUE, v |-> v, m |-> ""]

ParseErr(m) == [ok |-> FALSE, v |-> 0, m |-> m]

Passed == [k |-> "Passed", m |-> ""]

ParseError(m) == [k |-> "ParseError", m |-> m]

ValidationError(m) == [k |-> "ValidationError", m |-> m]

is_parse_err(s) == s.k = "ParseError"

is_validation_err(s) == s.k = "ValidationError"

\* FromStr of an unsigned field type whose largest value is max: the digits
\* accumulate left to right
RECURSIVE ParseDigits(_, _, _, _)
ParseDigits(raw, i, acc, max) ==
    IF i > Len(raw) THEN ParseOk(acc)
    ELSE IF ~IsDigit(raw[i]) THEN ParseErr("invalid digit found in string")
    ELSE IF acc * 10 + DigitVal(raw[i]) > max
         THEN ParseErr("number too large to fit in target type")
    ELSE ParseDigits(raw, i + 1, acc * 10 + DigitVal(raw[i]), max)

FromStr(raw, max) ==
    IF Len(raw) = 0 THEN ParseErr("cannot parse integer from empty string")
    ELSE IF raw[1] = "+"
         THEN IF Len(raw) = 1 THEN ParseErr("invalid digit found in string")
              ELSE ParseDigits(raw, 2, 0, max)
    ELSE ParseDigits(raw, 1, 0, max)

\* variant: the digits are written lowest first
RECURSIVE to_string_reversed(_)
to_string_reversed(v) ==
    IF v < 10 THEN <<Digits[v + 1]>>
    ELSE <<Digits[(v % 10) + 1]>> \o to_string_reversed(v \div 10)

RECURSIVE to_string(_)
to_string(v) ==
    IF v < 10 THEN <<Digits[v + 1]>>
    ELSE to_string(v \div 10) \o <<Digits[(v % 10) + 1]>>

(***************************************************************************)
(* The form description (FormToolData::build_form of the application)       *)
(***************************************************************************)
\* the interactive controls, numbered in declaration order
Controls == {1, 2, 3}

\* the largest value of the field type of control c: fields a and b hold a
\* number, field c a flag
FieldMax(c) == IF c = 3 THEN 1 ELSE MaxVal

FieldVals(c) == 0..FieldMax(c)

FormData == [a : FieldVals(1), b : FieldVals(2), c : FieldVals(3)]

Contexts == {1}

\* the checkboxes of a second form, whose FormData has two bool fields: the
\* raw value of a checkbox is a bool
Checkboxes == {4, 5}

CheckboxFormData == [subscribe : BOOLEAN, agree : BOOLEAN]

Field(c) ==
    CASE c = 1 -> "a" [] c = 2 -> "b" [] c = 3 -> "c"
      [] c = 4 -> "subscribe" [] c = 5 -> "agree"

getter(c, d) == d[Field(c)]

setter(c, d, v) == [d EXCEPT ![Field(c)] = v]

\* the raw strings a widget hands to the value setter: every number as
\* to_string writes it, the empty string, a non-number and a signed number
Raws == {to_string(v) : v \in Vals} \cup {<<>>, <<"x">>, <<"+", "1">>}

\* variant: the parse_fn of a checkbox rejects the unchecked box
parse_fn_rejects_unchecked(c, raw) ==
    IF c \in Checkboxes
    THEN IF raw THEN ParseOk(raw) ELSE ParseErr("unchecked")
    ELSE FromStr(raw, FieldMax(c))

\* the parse_fn and unparse_fn of control c: ControlBuilder::parse_string
\* for the text controls, ControlBuilder::parse_from for the checkboxes
\* (bool::try_from(bool) does not fail)
parse_fn(c, raw) ==
    IF c \in Checkboxes THEN ParseOk(raw) ELSE FromStr(raw, FieldMax(c))

unparse_fn(c, v) == IF c \in Checkboxes THEN v ELSE to_string(v)

\* control 1 has no validation function; control 2 checks its field against
\* another field; control 3 checks its own field; checkbox 4 has no
\* validation function and checkbox 5 must be checked
HasValidation(c) == c \in {2, 3, 5}

validation_fn(c, d) ==
    CASE c = 2 -> IF d.b <= d.a THEN Ok ELSE Err("b exceeds a")
      [] c = 3 -> IF d.c # 0 THEN Ok ELSE Err("c is required")
      [] c = 5 -> IF d.agree THEN Ok ELSE Err("agree must be checked")
      [] OTHER -> Ok

\* only control 3 has a show_when predicate
HasShowWhen(c) == c = 3

show_when(c, d, x) ==
    CASE c = 3 -> d.a >= x
      [] OTHER -> TRUE

Visible(c, d, x) == HasShowWhen(c) => show_when(c, d, x)

Ctl(c) == [t |-> "control", c |-> c, items |-> <<>>]

Vanity == [t |-> "vanity", c |-> 0, items |-> <<>>]

Group(items) == [t |-> "group", c |-> 0, items |-> items]

\* FormBuilder::render_fns as the build description leaves it
render_fns ==
    <<Ctl(1), Vanity,
      Group(<<Ctl(2), Vanity, Group(<<Ctl(3)>>), Group(<<>>)>>)>>

(***************************************************************************)
(* ControlBuilder::build, FormBuilder::add_control and add_vanity           *)
(***************************************************************************)
\* the control types C: std::any::type_name::<C>() in tokens.  The select
\* control is built from SelectBuildData<FD>, whose name carries the path of
\* the application's FormData type
ControlTypes == {"TextInputData", "SelectBuildData"}

type_name(t) ==
    CASE t = "TextInputData" ->
             <<"leptos_form_tool", "::", "controls", "::", "text_input", "::",
               "TextInputData">>
      [] t = "SelectBuildData" ->
             <<"leptos_form_tool", "::", "controls", "::", "select", "::",
               "SelectBuildData", "<", "app", "::", "FormData", ">">>

\* s.rsplit("::").next(): what follows the last "::" of s
rsplit_next(s) ==
    LET seps == {i \in 1..Len(s) : s[i] = "::"}
    IN  IF seps = {} THEN s
        ELSE LET last == CHOOSE i \in seps : \A j \in seps : j <= i
             IN  SubSeq(s, last + 1, Len(s))

\* a ControlBuilder for the field of control c as the application's closure
\* returns it: which of the four required functions were set (validation_fn
\* and show_when are set as HasValidation and HasShowWhen say)
ControlBuilders ==
    [c : Controls, t : ControlTypes, getter : BOOLEAN, setter : BOOLEAN,
     parse_fn : BOOLEAN, unparse_fn : BOOLEAN]

NoBuilder ==
    [c |-> 0, t |-> "", getter |-> FALSE, setter |-> FALSE,
     parse_fn |-> FALSE, unparse_fn |-> FALSE]

\* impl Display for ControlBuildError
ControlBuildError(e) ==
    CASE e = "MissingGetter" -> "missing getter function"
      [] e = "MissingSetter" -> "missing setter function"
      [] e = "MissingParseFn" -> "missing parse function"
      [] e = "MissingUnParseFn" -> "missing unparse function"

\* ControlBuilder::build
build(b) ==
    IF ~b.getter THEN [ok |-> FALSE, e |-> "MissingGetter"]
    ELSE IF ~b.setter THEN [ok |-> FALSE, e |-> "MissingSetter"]
    ELSE IF ~b.parse_fn THEN [ok |-> FALSE, e |-> "MissingParseFn"]
    ELSE IF ~b.unparse_fn THEN [ok |-> FALSE, e |-> "MissingUnParseFn"]
    ELSE [ok |-> TRUE, e |-> ""]

\* FormBuilder::new
FormBuilder_new == [validations |-> <<>>, render_fns |-> <<>>, panic |-> <<>>]

\* FormBuilder::add_control on the builder f: the panic, or the validation
\* function and the render function pushed
add_control(b, f) ==
    LET r == build(b)
    IN  IF ~r.ok
        THEN [f EXCEPT !.panic = <<"Invalid Component (">>
                                   \o rsplit_next(type_name(b.t))
                                   \o <<"): ", ControlBuildError(r.e)>>]
        ELSE [f EXCEPT !.validations = IF HasValidation(b.c)
                                       THEN Append(@, b.c) ELSE @,
                       !.render_fns = Append(@, Ctl(b.c))]

\* variant: a vanity control pushes a validation function
add_vanity_validates(f) ==
    [f EXCEPT !.validations = Append(@, 3), !.render_fns = Append(@, Vanity)]

\* FormBuilder::add_vanity
add_vanity(f) == [f EXCEPT !.render_fns = Append(@, Vanity)]

\* variant: the validations of the group's builder are not taken over
group_drops(g, f) == [f EXCEPT !.render_fns = Append(@, Group(g.render_fns))]

\* variant: the validations of the group's builder go in front of the parent's
group_prepends(g, f) ==
    [f EXCEPT !.validations = g.validations \o @,
              !.render_fns = Append(@, Group(g.render_fns))]

\* FormBuilder::group: g is the group's builder after the group's closure
group(g, f) ==
    [f EXCEPT !.validations = @ \o g.validations,
              !.render_fns = Append(@, Group(g.render_fns))]

\* the builder of control c with the four required functions set
Complete(c) ==
    [NoBuilder EXCEPT !.c = c, !.t = "TextInputData", !.getter = TRUE,
                      !.setter = TRUE, !.parse_fn = TRUE, !.unparse_fn = TRUE]

\* FormToolData::build_form of the application: the builder calls that give
\* the description items
RECURSIVE build_form(_, _)
build_form(items, f) ==
    IF Len(items) = 0 THEN f
    ELSE LET it == Head(items)
             g == CASE it.t = "control" -> add_control(Complete(it.c), f)
                    [] it.t = "group" ->
                           group(build_form(it.items, FormBuilder_new), f)
                    [] OTHER -> add_vanity(f)
         IN  build_form(Tail(items), g)

(***************************************************************************)
(* FormBuilder::add_control and FormBuilder::group: the validator list      *)
(***************************************************************************)
\* variant: the wrapper runs the validation_fn whatever show_when says
new_validation_fn_unguarded(c, d, x) ==
    [res |-> validation_fn(c, d), called |-> TRUE]

\* the function add_control builds around the validation_fn of a control that
\* has a show_when (res: what it returns; called: whether it ran the
\* control's validation_fn)
new_validation_fn(c, d, x) ==
    IF ~show_when(c, d, x) THEN [res |-> Ok, called |-> FALSE]
    ELSE [res |-> validation_fn(c, d), called |-> TRUE]

\* self.validations: the controls whose functions were pushed, in push order
RECURSIVE validations(_)
validations(items) ==
    IF Len(items) = 0 THEN <<>>
    ELSE LET it == Head(items)
             mine == CASE it.t = "control" ->
                              IF HasValidation(it.c) THEN <<it.c>> ELSE <<>>
                       [] it.t = "group" -> validations(it.items)
                       [] OTHER -> <<>>
         IN  mine \o validations(Tail(items))

\* variant: the validation_fn is pushed as it is, show_when or not
pushed_fn_raw(c, d, x) == [res |-> validation_fn(c, d), called |-> TRUE]

\* the function pushed for control c: add_control wraps the validation_fn of
\* a control that has a show_when
pushed_fn(c, d, x) ==
    IF HasShowWhen(c) THEN new_validation_fn(c, d, x)
    ELSE [res |-> validation_fn(c, d), called |-> TRUE]

\* variant: every function is run and the last failure is returned
RECURSIVE validate_all(_, _, _)
validate_all(vs, d, x) ==
    IF Len(vs) = 0 THEN [res |-> Ok, calls |-> <<>>, fns |-> <<>>]
    ELSE LET o == pushed_fn(Head(vs), d, x)
             called == IF o.called THEN <<Head(vs)>> ELSE <<>>
             rest == validate_all(Tail(vs), d, x)
         IN  [res |-> IF rest.res.ok THEN o.res ELSE rest.res,
              calls |-> called \o rest.calls,
              fns |-> <<Head(vs)>> \o rest.fns]

\* FormValidator::validate on the functions of the controls vs: the first
\* failure, or Ok (fns: the controls whose pushed function was called;
\* calls: those whose validation_fn ran)
RECURSIVE validate(_, _, _)
validate(vs, d, x) ==
    IF Len(vs) = 0 THEN [res |-> Ok, calls |-> <<>>, fns |-> <<>>]
    ELSE LET o == pushed_fn(Head(vs), d, x)
             called == IF o.called THEN <<Head(vs)>> ELSE <<>>
         IN  IF ~o.res.ok
             THEN [res |-> o.res, calls |-> called, fns |-> <<Head(vs)>>]
             ELSE LET rest == validate(Tail(vs), d, x)
                  IN  [res |-> rest.res, calls |-> called \o rest.calls,
                       fns |-> <<Head(vs)>> \o rest.fns]

(***************************************************************************)
(* FormBuilder::build_control_view: the validation callback                 *)
(***************************************************************************)
\* variant: the parse-error test comes before the visibility test
validation_cb_parse_first(c, s, d, x) ==
    IF is_parse_err(s)
    THEN [ret |-> FALSE, st |-> s, wrote |-> FALSE, called |-> FALSE]
    ELSE IF HasShowWhen(c) /\ ~show_when(c, d, x)
    THEN [ret |-> TRUE, st |-> s, wrote |-> FALSE, called |-> FALSE]
    ELSE IF ~HasValidation(c)
    THEN [ret |-> TRUE, st |-> s, wrote |-> FALSE, called |-> FALSE]
    ELSE LET r == validation_fn(c, d)
         IN  [ret |-> r.ok,
              st |-> IF r.ok THEN Passed ELSE ValidationError(r.m),
              wrote |-> TRUE, called |-> TRUE]

\* variant: a control without validation_fn passes before the parse-error test
validation_cb_validator_first(c, s, d, x) ==
    IF HasShowWhen(c) /\ ~show_when(c, d, x)
    THEN [ret |-> TRUE, st |-> s, wrote |-> FALSE, called |-> FALSE]
    ELSE IF ~HasValidation(c)
    THEN [ret |-> TRUE, st |-> s, wrote |-> FALSE, called |-> FALSE]
    ELSE IF is_parse_err(s)
    THEN [ret |-> FALSE, st |-> s, wrote |-> FALSE, called |-> FALSE]
    ELSE LET r == validation_fn(c, d)
         IN  [ret |-> r.ok,
              st |-> IF r.ok THEN Passed ELSE ValidationError(r.m),
              wrote |-> TRUE, called |-> TRUE]

\* variant: a failing validation_fn is reported but the state is not written
validation_cb_no_write(c, s, d, x) ==
    IF HasShowWhen(c) /\ ~show_when(c, d, x)
    THEN [ret |-> TRUE, st |-> s, wrote |-> FALSE, called |-> FALSE]
    ELSE IF is_parse_err(s)
    THEN [ret |-> FALSE, st |-> s, wrote |-> FALSE, called |-> FALSE]
    ELSE IF ~HasValidation(c)
    THEN [ret |-> TRUE, st |-> s, wrote |-> FALSE, called |-> FALSE]
    ELSE LET r == validation_fn(c, d)
         IN  [ret |-> r.ok,
              st |-> IF r.ok THEN Passed ELSE s,
              wrote |-> r.ok, called |-> TRUE]

\* variant: the parse-error test is missing
validation_cb_no_parse_check(c, s, d, x) ==
    IF HasShowWhen(c) /\ ~show_when(c, d, x)
    THEN [ret |-> TRUE, st |-> s, wrote |-> FALSE, called |-> FALSE]
    ELSE IF ~HasValidation(c)
    THEN [ret |-> TRUE, st |-> s, wrote |-> FALSE, called |-> FALSE]
    ELSE LET r == validation_fn(c, d)
         IN  [ret |-> r.ok,
              st |-> IF r.ok THEN Passed ELSE ValidationError(r.m),
              wrote |-> TRUE, called |-> TRUE]

\* variant: a callback that finds a validation error clears it and passes
validation_cb_clears(c, s, d, x) ==
    IF HasShowWhen(c) /\ ~show_when(c, d, x)
    THEN [ret |-> TRUE, st |-> s, wrote |-> FALSE, called |-> FALSE]
    ELSE IF is_parse_err(s)
    THEN [ret |-> FALSE, st |-> s, wrote |-> FALSE, called |-> FALSE]
    ELSE IF ~HasValidation(c)
    THEN [ret |-> TRUE, st |-> s, wrote |-> FALSE, called |-> FALSE]
    ELSE IF is_validation_err(s)
    THEN [ret |-> TRUE, st |-> Passed, wrote |-> TRUE, called |-> FALSE]
    ELSE LET r == validation_fn(c, d)
         IN  [ret |-> r.ok,
              st |-> IF r.ok THEN Passed ELSE ValidationError(r.m),
              wrote |-> TRUE, called |-> TRUE]

\* variant: a control without validation_fn fails
validation_cb_requires_fn(c, s, d, x) ==
    IF HasShowWhen(c) /\ ~show_when(c, d, x)
    THEN [ret |-> TRUE, st |-> s, wrote |-> FALSE, called |-> FALSE]
    ELSE IF is_parse_err(s)
    THEN [ret |-> FALSE, st |-> s, wrote |-> FALSE, called |-> FALSE]
    ELSE IF ~HasValidation(c)
    THEN [ret |-> FALSE, st |-> s, wrote |-> FALSE, called |-> FALSE]
    ELSE LET r == validation_fn(c, d)
         IN  [ret |-> r.ok,
              st |-> IF r.ok THEN Passed ELSE ValidationError(r.m),
              wrote |-> TRUE, called |-> TRUE]

\* variant: the callback of a hidden control resets its state
validation_cb_hidden_resets(c, s, d, x) ==
    IF HasShowWhen(c) /\ ~show_when(c, d, x)
    THEN [ret |-> TRUE, st |-> Passed, wrote |-> TRUE, called |-> FALSE]
    ELSE IF is_parse_err(s)
    THEN [ret |-> FALSE, st |-> s, wrote |-> FALSE, called |-> FALSE]
    ELSE IF ~HasValidation(c)
    THEN [ret |-> TRUE, st |-> s, wrote |-> FALSE, called |-> FALSE]
    ELSE LET r == validation_fn(c, d)
         IN  [ret |-> r.ok,
              st |-> IF r.ok THEN Passed ELSE ValidationError(r.m),
              wrote |-> TRUE, called |-> TRUE]

\* the callback of control c in state s: what it returns, the state it
\* leaves, whether it wrote the state signal and whether it ran validation_fn
validation_cb(c, s, d, x) ==
    IF HasShowWhen(c) /\ ~show_when(c, d, x)
    THEN [ret |-> TRUE, st |-> s, wrote |-> FALSE, called |-> FALSE]
    ELSE IF is_parse_err(s)
    THEN [ret |-> FALSE, st |-> s, wrote |-> FALSE, called |-> FALSE]
    ELSE IF ~HasValidation(c)
    THEN [ret |-> TRUE, st |-> s, wrote |-> FALSE, called |-> FALSE]
    ELSE LET r == validation_fn(c, d)
         IN  [ret |-> r.ok,
              st |-> IF r.ok THEN Passed ELSE ValidationError(r.m),
              wrote |-> TRUE, called |-> TRUE]

\* the running record of a sweep: the states, the controls whose state signal
\* was written, the leaf callbacks invoked with their results, and the
\* controls whose validation_fn ran
Run0(vs) == [vs |-> vs, wrote |-> {}, cbs |-> <<>>, vcalls |-> <<>>]

LeafCb(c, r, d, x) ==
    LET o == validation_cb(c, r.vs[c], d, x)
    IN  [r |-> [vs |-> [r.vs EXCEPT ![c] = o.st],
                wrote |-> IF o.wrote THEN r.wrote \cup {c} ELSE r.wrote,
                cbs |-> Append(r.cbs, <<c, o.ret>>),
                vcalls |-> IF o.called THEN Append(r.vcalls, c) ELSE r.vcalls],
         has |-> TRUE, ret |-> o.ret]

\* FormBuilder::group: the group's callback calls every child callback
RECURSIVE GroupCb(_, _, _, _, _)
ItemCb(it, r, d, x) ==
    CASE it.t = "control" -> LeafCb(it.c, r, d, x)
      [] it.t = "group" ->
             LET g == GroupCb(it.items, r, TRUE, d, x)
             IN  [r |-> g.r, has |-> TRUE, ret |-> g.ret]
      [] OTHER -> [r |-> r, has |-> FALSE, ret |-> TRUE]

\* variant: the group stops at the first child that fails
RECURSIVE GroupCb_stops(_, _, _, _, _)
GroupCb_stops(items, r, success, d, x) ==
    IF Len(items) = 0 THEN [r |-> r, ret |-> success]
    ELSE LET o == ItemCb(Head(items), r, d, x)
         IN  IF o.has /\ ~o.ret THEN [r |-> o.r, ret |-> FALSE]
             ELSE GroupCb_stops(Tail(items), o.r, success, d, x)

GroupCb(items, r, success, d, x) ==
    IF Len(items) = 0 THEN [r |-> r, ret |-> success]
    ELSE LET o == ItemCb(Head(items), r, d, x)
         IN  GroupCb(Tail(items), o.r, success /\ (o.has => o.ret), d, x)

\* variant: the loop goes on after a failure and forgets it
RECURSIVE Sweep_forgets(_, _, _, _, _)
Sweep_forgets(items, r, tops, d, x) ==
    IF Len(items) = 0 THEN [r |-> r, ret |-> TRUE, tops |-> tops]
    ELSE LET o == ItemCb(Head(items), r, d, x)
         IN  IF ~o.has THEN Sweep_forgets(Tail(items), o.r, tops, d, x)
             ELSE Sweep_forgets(Tail(items), o.r, Append(tops, o.ret), d, x)

\* the loop of the three on_submit handlers: stop at the first failure
\* (tops: what the callbacks of the form's own list returned, in call order)
RECURSIVE Sweep(_, _, _, _, _)
Sweep(items, r, tops, d, x) ==
    IF Len(items) = 0 THEN [r |-> r, ret |-> TRUE, tops |-> tops]
    ELSE LET o == ItemCb(Head(items), r, d, x)
         IN  IF ~o.has THEN Sweep(Tail(items), o.r, tops, d, x)
             ELSE IF ~o.ret
                  THEN [r |-> o.r, ret |-> FALSE, tops |-> Append(tops, FALSE)]
             ELSE Sweep(Tail(items), o.r, Append(tops, TRUE), d, x)

(***************************************************************************)
(* FormBuilder::create_value_setter and the Effect of build_control_view    *)
(***************************************************************************)
\* variant: a parse failure stores the default value of the field
value_setter_default(c, raw, d) ==
    LET p == parse_fn(c, raw)
        data == setter(c, d, IF p.ok THEN p.v ELSE 0)
        r == validation_fn(c, data)
    IN  IF ~p.ok
        THEN [data |-> data, st |-> ParseError(p.m), set |-> TRUE,
              vcalls |-> <<>>]
        ELSE IF ~HasValidation(c)
        THEN [data |-> data, st |-> Passed, set |-> TRUE, vcalls |-> <<>>]
        ELSE [data |-> data,
              st |-> IF r.ok THEN Passed ELSE ValidationError(r.m),
              set |-> TRUE, vcalls |-> <<c>>]

\* variant: validation_fn is run on the FormData as it was before the setter
value_setter_stale(c, raw, d) ==
    LET p == parse_fn(c, raw)
        data == setter(c, d, p.v)
        r == validation_fn(c, d)
    IN  IF ~p.ok
        THEN [data |-> d, st |-> ParseError(p.m), set |-> FALSE,
              vcalls |-> <<>>]
        ELSE IF ~HasValidation(c)
        THEN [data |-> data, st |-> Passed, set |-> TRUE, vcalls |-> <<>>]
        ELSE [data |-> data,
              st |-> IF r.ok THEN Passed ELSE ValidationError(r.m),
              set |-> TRUE, vcalls |-> <<c>>]

\* the value setter of control c, handed raw while the FormData is d:
\* the FormData and the state it leaves, whether it called the field setter
\* and the controls whose validation_fn it ran
value_setter(c, raw, d) ==
    LET p == parse_fn(c, raw)
    IN  IF ~p.ok
        THEN [data |-> d, st |-> ParseError(p.m), set |-> FALSE,
              vcalls |-> <<>>]
        ELSE LET data == setter(c, d, p.v)
             IN  IF ~HasValidation(c)
                 THEN [data |-> data, st |-> Passed, set |-> TRUE,
                       vcalls |-> <<>>]
                 ELSE LET r == validation_fn(c, data)
                      IN  [data |-> data,
                           st |-> IF r.ok THEN Passed
                                  ELSE ValidationError(r.m),
                           set |-> TRUE, vcalls |-> <<c>>]

\* variant: a failing validation is not rerun
Effect_no_rerun(c, s, v, d) ==
    IF is_parse_err(s)
    THEN [st |-> s, value |-> v, wrote |-> FALSE, vcalls |-> <<>>]
    ELSE [st |-> s, value |-> unparse_fn(c, getter(c, d)), wrote |-> FALSE,
          vcalls |-> <<>>]

\* variant: the run also returns early on a validation error
Effect_skips_errors(c, s, v, d) ==
    IF is_parse_err(s) \/ is_validation_err(s)
    THEN [st |-> s, value |-> v, wrote |-> FALSE, vcalls |-> <<>>]
    ELSE [st |-> s, value |-> unparse_fn(c, getter(c, d)), wrote |-> FALSE,
          vcalls |-> <<>>]

\* variant: the rerun of a failing validation stores its result, Ok or Err
Effect_stores_result(c, s, v, d) ==
    IF is_parse_err(s)
    THEN [st |-> s, value |-> v, wrote |-> FALSE, vcalls |-> <<>>]
    ELSE LET rerun == is_validation_err(s) /\ HasValidation(c)
             r == validation_fn(c, d)
         IN  [st |-> IF rerun THEN (IF r.ok THEN Passed
                                    ELSE ValidationError(r.m))
                     ELSE s,
              value |-> unparse_fn(c, getter(c, d)),
              wrote |-> rerun,
              vcalls |-> IF rerun THEN <<c>> ELSE <<>>]

\* variant: the run recomputes the display value in ParseError as well
Effect_recomputes_always(c, s, v, d) ==
    IF is_parse_err(s)
    THEN [st |-> s, value |-> unparse_fn(c, getter(c, d)), wrote |-> FALSE,
          vcalls |-> <<>>]
    ELSE LET rerun == is_validation_err(s) /\ HasValidation(c)
             heal == rerun /\ validation_fn(c, d).ok
         IN  [st |-> IF heal THEN Passed ELSE s,
              value |-> unparse_fn(c, getter(c, d)),
              wrote |-> heal,
              vcalls |-> IF rerun THEN <<c>> ELSE <<>>]

\* variant: the run validates in every state but ParseError and stores the
\* result
Effect_revalidates(c, s, v, d) ==
    IF is_parse_err(s)
    THEN [st |-> s, value |-> v, wrote |-> FALSE, vcalls |-> <<>>]
    ELSE LET r == validation_fn(c, d)
             st == IF r.ok THEN Passed ELSE ValidationError(r.m)
         IN  [st |-> IF HasValidation(c) THEN st ELSE s,
              value |-> unparse_fn(c, getter(c, d)),
              wrote |-> HasValidation(c) /\ st # s,
              vcalls |-> IF HasValidation(c) THEN <<c>> ELSE <<>>]

\* one run of the Effect of control c in state s, with display value v, while
\* the FormData is d: the state and display value it leaves, whether it wrote
\* the state signal and the controls whose validation_fn it ran
Effect(c, s, v, d) ==
    IF is_parse_err(s)
    THEN [st |-> s, value |-> v, wrote |-> FALSE, vcalls |-> <<>>]
    ELSE LET rerun == is_validation_err(s) /\ HasValidation(c)
             heal == rerun /\ validation_fn(c, d).ok
         IN  [st |-> IF heal THEN Passed ELSE s,
              value |-> unparse_fn(c, getter(c, d)),
              wrote |-> heal,
              vcalls |-> IF rerun THEN <<c>> ELSE <<>>]

(***************************************************************************)
(* The handlers                                                             *)
(***************************************************************************)
\* the observation of a handler: what it was (op, c, raw), the FormData and
\* the states it started from, and what it did
Obs(op) ==
    [op |-> op, c |-> 0, raw |-> <<>>, fd0 |-> fd, vs0 |-> vstate,
     set |-> FALSE, ret |-> TRUE, res |-> Ok, cbs |-> <<>>, tops |-> <<>>,
     vcalls |-> <<>>, was_prevented |-> FALSE, prevented |-> FALSE,
     on_submit |-> FALSE, dispatched |-> FALSE, fns |-> <<>>]

AllDirty == [c \in Controls |-> TRUE]

\* Effects are tasks on the executor's local queue, which is drained before
\* the next event is delivered: a handler runs when no Effect is pending
Quiescent == \A c \in Controls : ~dirty[c]

\* the event loop is idle: the last handler and the Effects it notified have
\* run, and the next event can be delivered
AtRest == Quiescent /\ ev.op = "idle"

\* variant: the build runs every validation_fn on the initial FormData
Init_prevalidated ==
    /\ fb = build_form(render_fns, FormBuilder_new)
    /\ cx \in Contexts
    /\ fd \in FormData
    /\ vstate = [c \in Controls |->
                    IF validation_fn(c, fd).ok THEN Passed
                    ELSE ValidationError(validation_fn(c, fd).m)]
    /\ value = [c \in Controls |-> unparse_fn(c, getter(c, fd))]
    /\ dirty = AllDirty
    /\ ev = Obs("build")

\* FormBuilder::build_form / build_action_form / build_plain_form on the
\* builder that FormToolData::build_form returned: the render functions
\* create the signals and the Effect of every control
Init ==
    /\ fb = build_form(render_fns, FormBuilder_new)
    /\ cx \in Contexts
    /\ fd \in FormData
    /\ vstate = [c \in Controls |-> Passed]
    /\ value = [c \in Controls |-> unparse_fn(c, getter(c, fd))]
    /\ dirty = AllDirty
    /\ ev = Obs("build")

\* the widget of control c hands raw to the value setter
ValueSetter(c, raw) ==
    LET o == value_setter(c, raw, fd)
    IN  /\ AtRest
        /\ fd' = o.data
        /\ vstate' = [vstate EXCEPT ![c] = o.st]
        \* fd.update notifies every Effect, the state signal the control's own
        /\ dirty' = IF o.set THEN AllDirty ELSE [dirty EXCEPT ![c] = TRUE]
        /\ ev' = [Obs("value_setter") EXCEPT !.c = c, !.raw = raw,
                      !.set = o.set, !.vcalls = o.vcalls]
        /\ UNCHANGED <<fb, cx, value>>

\* the Effect of control c runs once after it has been notified
RunEffect(c) ==
    LET o == Effect(c, vstate[c], value[c], fd)
    IN  /\ dirty[c]
        /\ vstate' = [vstate EXCEPT ![c] = o.st]
        /\ value' = [value EXCEPT ![c] = o.value]
        \* a write of the state signal notifies this Effect again
        /\ dirty' = [dirty EXCEPT ![c] = o.wrote]
        /\ ev' = [Obs("Effect") EXCEPT !.c = c, !.vcalls = o.vcalls]
        /\ UNCHANGED <<fb, cx, fd>>

\* one call of the validation callback of control c
ValidationCb(c) ==
    LET o == LeafCb(c, Run0(vstate), fd, cx)
    IN  /\ AtRest
        /\ vstate' = o.r.vs
        /\ dirty' = [k \in Controls |-> dirty[k] \/ k \in o.r.wrote]
        /\ ev' = [Obs("validation_cb") EXCEPT !.c = c, !.ret = o.ret,
                      !.cbs = o.r.cbs, !.vcalls = o.r.vcalls]
        /\ UNCHANGED <<fb, cx, fd, value>>

\* a submit event reaches an on_submit closure; dispatches tells build_form's
\* closure (which dispatches the action itself) from the other two
Submit(op, dispatches, default_prevented) ==
    /\ AtRest
    /\ IF default_prevented
       THEN /\ ev' = [Obs(op) EXCEPT !.was_prevented = TRUE,
                          !.prevented = TRUE]
            /\ UNCHANGED <<fb, cx, fd, vstate, value, dirty>>
       ELSE LET o == Sweep(render_fns, Run0(vstate), <<>>, fd, cx)
            IN  /\ vstate' = o.r.vs
                /\ dirty' = [k \in Controls |-> dirty[k] \/ k \in o.r.wrote]
                /\ ev' = [Obs(op) EXCEPT !.ret = o.ret, !.cbs = o.r.cbs,
                              !.tops = o.tops, !.vcalls = o.r.vcalls,
                              !.prevented = dispatches \/ ~o.ret,
                              !.on_submit = o.ret,
                              !.dispatched = dispatches /\ o.ret]
                /\ UNCHANGED <<fb, cx, fd, value>>

\* the on_submit closure of build_form
SubmitForm(default_prevented) ==
    Submit("submit_form", TRUE, default_prevented)

\* the on_submit closure of build_action_form
SubmitActionForm(default_prevented) ==
    Submit("submit_action_form", FALSE, default_prevented)

\* the on_submit closure of build_plain_form
SubmitPlainForm(default_prevented) ==
    Submit("submit_plain_form", FALSE, default_prevented)

\* variant: Form::validate marks the control whose function failed
FormValidate_marks ==
    LET o == validate(validations(render_fns), fd, cx)
    IN  /\ AtRest
        /\ vstate' = [c \in Controls |->
                         IF ~o.res.ok /\ c = o.fns[Len(o.fns)]
                         THEN ValidationError(o.res.m) ELSE vstate[c]]
        /\ ev' = [Obs("validate") EXCEPT !.res = o.res, !.ret = o.res.ok,
                      !.vcalls = o.calls, !.fns = o.fns]
        /\ UNCHANGED <<fb, cx, fd, value, dirty>>

\* Form::validate on the current FormData
FormValidate ==
    LET o == validate(validations(render_fns), fd, cx)
    IN  /\ AtRest
        /\ ev' = [Obs("validate") EXCEPT !.res = o.res, !.ret = o.res.ok,
                      !.vcalls = o.calls, !.fns = o.fns]
        /\ UNCHANGED <<fb, cx, fd, vstate, value, dirty>>

\* application code writes a field of the FormData signal (Form::fd is public)
WriteFd(data) ==
    /\ AtRest
    /\ fd' = data
    /\ dirty' = AllDirty
    /\ ev' = Obs("write_fd")
    /\ UNCHANGED <<fb, cx, vstate, value>>

\* the handler returns to the event loop once the Effects it notified have
\* run
Rest ==
    /\ Quiescent
    /\ ev.op # "idle"
    /\ ev' = Obs("idle")
    /\ UNCHANGED <<fb, cx, fd, vstate, value, dirty>>

\* FormToolData::validate: FormBuilder::validator of the builder that
\* build_form returned, then FormValidator::validate on a FormData value
ValidatorValidate ==
    LET o == validate(fb.validations, fd, cx)
    IN  /\ Quiescent
        /\ fb.panic = <<>>
        /\ ev' = [Obs("validator") EXCEPT !.res = o.res, !.ret = o.res.ok,
                      !.vcalls = o.calls, !.fns = o.fns]
        /\ UNCHANGED <<fb, cx, fd, vstate, value, dirty>>

Next ==
    \/ \E c \in Controls, raw \in Raws : ValueSetter(c, raw)
    \/ \E c \in Controls : RunEffect(c)
    \/ \E c \in Controls : ValidationCb(c)
    \/ \E p \in BOOLEAN : SubmitForm(p)
    \/ \E p \in BOOLEAN : SubmitActionForm(p)
    \/ \E p \in BOOLEAN : SubmitPlainForm(p)
    \/ FormValidate
    \/ ValidatorValidate
    \/ Rest
    \/ \E c \in Controls : \E v \in FieldVals(c) : WriteFd(setter(c, fd, v))

Spec == Init /\ [][Next]_vars

\* the raw strings of the edits below: every number and the empty string
LiveRaws == {to_string(v) : v \in Vals} \cup {<<>>}

\* the events that notify an Effect (an edit, a call of a validation
\* callback, a write of the FormData), and the Effects: the
\* executor runs every Effect that has been notified
LiveNext ==
    \/ \E c \in Controls, raw \in LiveRaws : ValueSetter(c, raw)
    \/ \E c \in Controls : RunEffect(c)
    \/ \E c \in Controls : ValidationCb(c)
    \/ Rest
    \/ \E c \in Controls : \E v \in FieldVals(c) : WriteFd(setter(c, fd, v))

LiveSpec ==
    /\ Init
    /\ [][LiveNext]_vars
    /\ \A c \in Controls : WF_vars(RunEffect(c))

(***************************************************************************)
(* The builder on its own: no view is built                                 *)
(***************************************************************************)
\* the observation of a call on the builder: what it was (op, b, and for a
\* group g, the group's builder) and the builder it started from
BuildObs(op, b) == [op |-> op, b |-> b, fb0 |-> fb, g |-> FormBuilder_new]

\* the closures handed to FormBuilder::group, as the items they declare: one
\* control, and a control, a vanity control and a nested group of two
GroupClosures ==
    {<<Ctl(3)>>, <<Ctl(2), Vanity, Group(<<Ctl(3), Ctl(2)>>)>>}

\* no form has been rendered from the builder yet: every signal is as the
\* render functions create it
Unbuilt == Quiescent /\ \A c \in Controls : vstate[c] = Passed

\* FormBuilder::new; fd is the FormData value the application validates
BuildInit ==
    /\ fb = FormBuilder_new
    /\ cx \in Contexts
    /\ fd \in FormData
    /\ vstate = [c \in Controls |-> Passed]
    /\ value = [c \in Controls |-> unparse_fn(c, getter(c, fd))]
    /\ dirty = [c \in Controls |-> FALSE]
    /\ ev = BuildObs("new", NoBuilder)

\* FormBuilder::new_control: the closure returns b, add_control takes it
NewControl(b) ==
    /\ Unbuilt
    /\ fb.panic = <<>>
    /\ Len(fb.render_fns) < MaxItems
    /\ fb' = add_control(b, fb)
    /\ ev' = BuildObs("new_control", b)
    /\ UNCHANGED <<cx, fd, vstate, value, dirty>>

\* FormBuilder::new_vanity: add_vanity takes the vanity control
NewVanity ==
    /\ Unbuilt
    /\ fb.panic = <<>>
    /\ Len(fb.render_fns) < MaxItems
    /\ fb' = add_vanity(fb)
    /\ ev' = BuildObs("new_vanity", NoBuilder)
    /\ UNCHANGED <<cx, fd, vstate, value, dirty>>

\* FormBuilder::group: the closure declares items on the group's builder
NewGroup(items) ==
    LET g == build_form(items, FormBuilder_new)
    IN  /\ Unbuilt
        /\ fb.panic = <<>>
        /\ Len(fb.render_fns) < MaxItems
        /\ fb' = group(g, fb)
        /\ ev' = [BuildObs("group", NoBuilder) EXCEPT !.g = g]
        /\ UNCHANGED <<cx, fd, vstate, value, dirty>>

\* FormBuilder::build_form on the builder, and the first submit event on the
\* form it renders: the render functions give the callbacks, the on_submit
\* closure sweeps them
BuildFormSubmit ==
    LET o == Sweep(fb.render_fns, Run0(vstate), <<>>, fd, cx)
    IN  /\ Unbuilt
        /\ fb.panic = <<>>
        /\ vstate' = o.r.vs
        /\ dirty' = [k \in Controls |-> k \in o.r.wrote]
        /\ ev' = [Obs("submit_form") EXCEPT !.ret = o.ret, !.cbs = o.r.cbs,
                      !.tops = o.tops, !.vcalls = o.r.vcalls,
                      !.prevented = TRUE, !.on_submit = o.ret,
                      !.dispatched = o.ret]
        /\ UNCHANGED <<fb, cx, fd, value>>

BuildNext ==
    \/ \E b \in ControlBuilders : NewControl(b)
    \/ NewVanity
    \/ ValidatorValidate

BuildSpec == BuildInit /\ [][BuildNext]_vars

\* the builds that do not panic: every control closure sets the four required
\* functions; groups are declared, and the form is rendered and submitted
FormNext ==
    \/ \E c \in Controls : NewControl(Complete(c))
    \/ NewVanity
    \/ \E items \in GroupClosures : NewGroup(items)
    \/ BuildFormSubmit
    \/ ValidatorValidate

FormSpec == BuildInit /\ [][FormNext]_vars

(***************************************************************************)
(* A form of two checkboxes                                                 *)
(***************************************************************************)
\* no Effect of a checkbox is pending
CheckboxQuiescent == \A c \in Checkboxes : ~dirty[c]

\* FormBuilder::checkbox twice, then the form is built: the render functions
\* create the signals and the Effect of every checkbox
CheckboxInit ==
    /\ fb = add_control(Complete(5), add_control(Complete(4), FormBuilder_new))
    /\ cx \in Contexts
    /\ fd \in CheckboxFormData
    /\ vstate = [c \in Checkboxes |-> Passed]
    /\ value = [c \in Checkboxes |-> unparse_fn(c, getter(c, fd))]
    /\ dirty = [c \in Checkboxes |-> TRUE]
    /\ ev = Obs("build")

\* the widget of checkbox c hands its checked state to the value setter
CheckboxSet(c, checked) ==
    LET o == value_setter(c, checked, fd)
    IN  /\ CheckboxQuiescent
        /\ fd' = o.data
        /\ vstate' = [vstate EXCEPT ![c] = o.st]
        /\ dirty' = IF o.set THEN [k \in Checkboxes |-> TRUE]
                     ELSE [dirty EXCEPT ![c] = TRUE]
        /\ ev' = [Obs("value_setter") EXCEPT !.c = c, !.raw = checked,
                      !.set = o.set, !.vcalls = o.vcalls]
        /\ UNCHANGED <<fb, cx, value>>

\* the Effect of checkbox c runs once after it has been notified
CheckboxEffect(c) ==
    LET o == Effect(c, vstate[c], value[c], fd)
    IN  /\ dirty[c]
        /\ vstate' = [vstate EXCEPT ![c] = o.st]
        /\ value' = [value EXCEPT ![c] = o.value]
        /\ dirty' = [dirty EXCEPT ![c] = o.wrote]
        /\ ev' = [Obs("Effect") EXCEPT !.c = c, !.vcalls = o.vcalls]
        /\ UNCHANGED <<fb, cx, fd>>

\* one call of the validation callback of checkbox c
CheckboxCb(c) ==
    LET o == validation_cb(c, vstate[c], fd, cx)
    IN  /\ CheckboxQuiescent
        /\ vstate' = [vstate EXCEPT ![c] = o.st]
        /\ dirty' = [dirty EXCEPT ![c] = o.wrote]
        /\ ev' = [Obs("validation_cb") EXCEPT !.c = c, !.ret = o.ret,
                      !.cbs = <<(<<c, o.ret>>)>>,
                      !.vcalls = IF o.called THEN <<c>> ELSE <<>>]
        /\ UNCHANGED <<fb, cx, fd, value>>

\* a submit event reaches the on_submit closure of the checkbox form
CheckboxSubmit(default_prevented) ==
    /\ CheckboxQuiescent
    /\ IF default_prevented
       THEN /\ ev' = [Obs("submit_form") EXCEPT !.was_prevented = TRUE,
                          !.prevented = TRUE]
            /\ UNCHANGED <<fb, cx, fd, vstate, value, dirty>>
       ELSE LET o == Sweep(fb.render_fns, Run0(vstate), <<>>, fd, cx)
            IN  /\ vstate' = o.r.vs
                /\ dirty' = [k \in Checkboxes |-> dirty[k] \/ k \in o.r.wrote]
                /\ ev' = [Obs("submit_form") EXCEPT !.ret = o.ret,
                              !.cbs = o.r.cbs, !.tops = o.tops,
                              !.vcalls = o.r.vcalls, !.prevented = TRUE,
                              !.on_submit = o.ret, !.dispatched = o.ret]
                /\ UNCHANGED <<fb, cx, fd, value>>

\* application code writes a field of the FormData signal
CheckboxWriteFd(data) ==
    /\ CheckboxQuiescent
    /\ fd' = data
    /\ dirty' = [k \in Checkboxes |-> TRUE]
    /\ ev' = Obs("write_fd")
    /\ UNCHANGED <<fb, cx, vstate, value>>

CheckboxNext ==
    \/ \E c \in Checkboxes, checked \in BOOLEAN : CheckboxSet(c, checked)
    \/ \E c \in Checkboxes : CheckboxEffect(c)
    \/ \E c \in Checkboxes : CheckboxCb(c)
    \/ \E p \in BOOLEAN : CheckboxSubmit(p)
    \/ \E c \in Checkboxes, v \in BOOLEAN : CheckboxWriteFd(setter(c, fd, v))

CheckboxSpec == CheckboxInit /\ [][CheckboxNext]_vars

(***************************************************************************)
(* ValidationBuilder                                                        *)
(***************************************************************************)
\* the values of a str field and of an Option field
Strs == {<<>>, <<" ">>, <<"a">>, <<"a", "b">>}

None == [some |-> FALSE, v |-> 0]

Some(v) == [some |-> TRUE, v |-> v]

Options == {None, Some(0), Some(1)}

\* the FormData of the validated form: one field, a str or an Option
FieldData ==
    [kind : {"str"}, v : Strs] \cup [kind : {"option"}, v : Options]

FieldNames == {"Field", "email"}

\* the lengths handed to min_len and max_len
Lens == {1, 2}

\* variant: the str check also rejects a string of blanks
required_blank(kind, name, val) ==
    IF kind = "option"
    THEN IF ~val.some THEN Err(<<name, " is required">>) ELSE Ok
    ELSE IF \A i \in 1..Len(val) : val[i] = " "
         THEN Err(<<name, " is required">>) ELSE Ok

\* ValidationBuilder<FD, str>::required and
\* ValidationBuilder<FD, Option<T>>::required: the closure pushed
required(kind, name, val) ==
    IF kind = "option"
    THEN IF ~val.some THEN Err(<<name, " is required">>) ELSE Ok
    ELSE IF Len(val) = 0 THEN Err(<<name, " is required">>) ELSE Ok

\* ValidationBuilder<FD, str>::min_len and max_len: the closures pushed
min_len(n, name, val) ==
    IF Len(val) < n
    THEN Err(<<name, " must be >= ", n, " characters">>) ELSE Ok

max_len(n, name, val) ==
    IF Len(val) > n
    THEN Err(<<name, " must be <= ", n, " characters">>) ELSE Ok

\* the closure the application hands to ValidationBuilder::custom: it rejects
\* one val of the field
custom_f(kind, val) ==
    IF val = (IF kind = "option" THEN Some(1) ELSE <<"a">>)
    THEN Err(<<"taken">>) ELSE Ok

\* one function of ValidationBuilder::functions called on (name, val);
\* custom drops the name
ValidationBuilderFn(f, kind, name, val) ==
    CASE f.t = "required" -> required(kind, name, val)
      [] f.t = "min_len" -> min_len(f.n, name, val)
      [] f.t = "max_len" -> max_len(f.n, name, val)
      [] OTHER -> custom_f(kind, val)

Check(t, n) == [t |-> t, n |-> n]

\* variant: the loop goes on after a failure and returns the last one
RECURSIVE ValidationBuilder_build_last(_, _, _, _)
ValidationBuilder_build_last(fs, i, name, d) ==
    IF i > Len(fs) THEN [res |-> Ok, calls |-> <<>>]
    ELSE LET r == ValidationBuilderFn(fs[i], d.kind, name, d.v)
             rest == ValidationBuilder_build_last(fs, i + 1, name, d)
         IN  [res |-> IF rest.res.ok THEN r ELSE rest.res,
              calls |-> <<i>> \o rest.calls]

\* the closure ValidationBuilder::build returns, called on the FormData d:
\* the loop from function i on (calls: the functions it called)
RECURSIVE ValidationBuilder_build(_, _, _, _)
ValidationBuilder_build(fs, i, name, d) ==
    IF i > Len(fs) THEN [res |-> Ok, calls |-> <<>>]
    ELSE LET r == ValidationBuilderFn(fs[i], d.kind, name, d.v)
         IN  IF ~r.ok THEN [res |-> r, calls |-> <<i>>]
             ELSE LET rest == ValidationBuilder_build(fs, i + 1, name, d)
                  IN  [res |-> rest.res, calls |-> <<i>> \o rest.calls]

\* the observation of a call on the ValidationBuilder
VbObs(op) == [op |-> op, fb0 |-> fb, res |-> Ok, calls |-> <<>>]

\* ValidationBuilder::for_field; fd is the FormData the built function is
\* called on
VbInit ==
    /\ fb = [name |-> "Field", functions |-> <<>>]
    /\ cx \in Contexts
    /\ fd \in FieldData
    /\ vstate = <<>>
    /\ value = <<>>
    /\ dirty = <<>>
    /\ ev = VbObs("for_field")

\* build consumes the builder
VbOpen == ev.op # "build"

\* ValidationBuilder::named
VbNamed(name) ==
    /\ VbOpen
    /\ fb' = [fb EXCEPT !.name = name]
    /\ ev' = VbObs("named")
    /\ UNCHANGED <<cx, fd, vstate, value, dirty>>

\* a method of ValidationBuilder that pushes the function f
VbPush(op, f) ==
    /\ VbOpen
    /\ Len(fb.functions) < MaxChecks
    /\ fb' = [fb EXCEPT !.functions = Append(@, f)]
    /\ ev' = VbObs(op)
    /\ UNCHANGED <<cx, fd, vstate, value, dirty>>

\* ValidationBuilder::required, for a str and for an Option field
VbRequired == VbPush("required", Check("required", 0))

\* ValidationBuilder<FD, str>::min_len
VbMinLen(n) == fd.kind = "str" /\ VbPush("min_len", Check("min_len", n))

\* ValidationBuilder<FD, str>::max_len
VbMaxLen(n) == fd.kind = "str" /\ VbPush("max_len", Check("max_len", n))

\* ValidationBuilder::custom
VbCustom == VbPush("custom", Check("custom", 0))

\* ValidationBuilder::build, and a call of the function it returns
VbBuild ==
    LET o == ValidationBuilder_build(fb.functions, 1, fb.name, fd)
    IN  /\ ev' = [VbObs("build") EXCEPT !.res = o.res, !.calls = o.calls]
        /\ UNCHANGED <<fb, cx, fd, vstate, value, dirty>>

VbNext ==
    \/ \E name \in FieldNames : VbNamed(name)
    \/ VbRequired
    \/ \E n \in Lens : VbMinLen(n)
    \/ \E n \in Lens : VbMaxLen(n)
    \/ VbCustom
    \/ VbBuild

VbSpec == VbInit /\ [][VbNext]_vars

(***************************************************************************)
(* Properties                                                               *)
(***************************************************************************)
SubmitOps == {"submit_form", "submit_action_form", "submit_plain_form"}

InSeq(x, q) == \E i \in 1..Len(q) : q[i] = x

\* the state that reports the result r of a validation_fn
Reported(r) == IF r.ok THEN Passed ELSE ValidationError(r.m)

\* the leaf callbacks the last handler invoked: control and result
CbCtl(i) == ev.cbs[i][1]

CbRet(i) == ev.cbs[i][2]

\* the parse result of the raw value the last value setter was handed
EvParse == parse_fn(ev.c, ev.raw)

\* C1: when the raw value handed to the value setter of a control fails to
\* parse with message m, the control's state is ParseError(m), the field
\* setter was not called, no validation_fn ran and the FormData is what it was
\* before the edit.
C1_ParseFailure ==
    (ev.op = "value_setter" /\ ~EvParse.ok) =>
        /\ vstate[ev.c] = ParseError(EvParse.m)
        /\ ~ev.set
        /\ ev.vcalls = <<>>
        /\ fd = ev.fd0
        /\ \A k \in Controls \ {ev.c} : vstate[k] = ev.vs0[k]

C1_Witness ==
    /\ ev.op = "value_setter"
    /\ ev.raw = <<"x">>
    /\ vstate[ev.c] = ParseError("invalid digit found in string")
    /\ is_validation_err(ev.vs0[ev.c])

\* C2: when the raw value parses to p, the FormData is the old FormData with
\* setter(p) applied; a control with a validation_fn ran it and its state
\* reports the result on the updated FormData; a control without one is
\* Passed.  The prior state plays no part.
C2_ParseSuccess ==
    (ev.op = "value_setter" /\ EvParse.ok) =>
        /\ ev.set
        /\ fd = setter(ev.c, ev.fd0, EvParse.v)
        /\ IF HasValidation(ev.c)
           THEN /\ ev.vcalls = <<ev.c>>
                /\ vstate[ev.c] = Reported(validation_fn(ev.c, fd))
           ELSE /\ ev.vcalls = <<>>
                /\ vstate[ev.c] = Passed

C2_Witness ==
    /\ ev.op = "value_setter"
    /\ EvParse.ok
    /\ is_parse_err(ev.vs0[ev.c])
    /\ is_validation_err(vstate[ev.c])
    /\ validation_fn(ev.c, ev.fd0).ok

\* C3: a validation callback of a control whose show_when is false on the
\* current FormData and Context returns true, runs no validation_fn and
\* leaves the state as it was, whatever the state.
C3_HiddenPasses ==
    \A i \in 1..Len(ev.cbs) :
        (HasShowWhen(CbCtl(i)) /\ ~show_when(CbCtl(i), fd, cx)) =>
            /\ CbRet(i)
            /\ ~InSeq(CbCtl(i), ev.vcalls)
            /\ vstate[CbCtl(i)] = ev.vs0[CbCtl(i)]

C3_Witness ==
    /\ ev.op = "validation_cb"
    /\ HasShowWhen(ev.c)
    /\ ~show_when(ev.c, fd, cx)
    /\ is_parse_err(vstate[ev.c])
    /\ ev.ret

\* C4: a validation callback of a visible control whose state is ParseError
\* returns false, runs no validation_fn and leaves the state as it was, also
\* when the control has no validation_fn.
C4_ParseErrorFails ==
    \A i \in 1..Len(ev.cbs) :
        (Visible(CbCtl(i), fd, cx) /\ is_parse_err(ev.vs0[CbCtl(i)])) =>
            /\ ~CbRet(i)
            /\ ~InSeq(CbCtl(i), ev.vcalls)
            /\ vstate[CbCtl(i)] = ev.vs0[CbCtl(i)]

C4_Witness ==
    /\ ev.op = "validation_cb"
    /\ ~HasValidation(ev.c)
    /\ is_parse_err(vstate[ev.c])
    /\ ~ev.ret

\* C5: a validation callback of a visible control with a validation_fn whose
\* state is not ParseError runs the validation_fn on the current FormData,
\* leaves the state that reports its result, and returns true exactly when
\* the result is Ok.
C5_RunsValidation ==
    \A i \in 1..Len(ev.cbs) :
        (/\ Visible(CbCtl(i), fd, cx)
         /\ HasValidation(CbCtl(i))
         /\ ~is_parse_err(ev.vs0[CbCtl(i)])) =>
            /\ InSeq(CbCtl(i), ev.vcalls)
            /\ vstate[CbCtl(i)] = Reported(validation_fn(CbCtl(i), fd))
            /\ CbRet(i) = validation_fn(CbCtl(i), fd).ok

C5_Witness ==
    /\ ev.op = "validation_cb"
    /\ HasShowWhen(ev.c)
    /\ ev.vs0[ev.c] = Passed
    /\ is_validation_err(vstate[ev.c])
    /\ ~ev.ret

\* C6: on_submit is called, and the action of build_form dispatched, only by
\* a submit handler whose event was not default-prevented and in which every
\* callback invoked returned true; a callback that returns false excludes
\* both.
C6_SubmitNeedsAllPassing ==
    /\ (ev.on_submit \/ ev.dispatched) =>
           /\ ev.op \in SubmitOps
           /\ ~ev.was_prevented
           /\ \A i \in 1..Len(ev.tops) : ev.tops[i]
           /\ \A i \in 1..Len(ev.cbs) : CbRet(i)
    /\ ev.dispatched => (ev.op = "submit_form" /\ ev.on_submit)
    /\ ((\E i \in 1..Len(ev.tops) : ~ev.tops[i])
            \/ (\E i \in 1..Len(ev.cbs) : ~CbRet(i))) =>
           (~ev.on_submit /\ ~ev.dispatched)

C6_Witness ==
    /\ ev.op = "submit_form"
    /\ ev.on_submit
    /\ ev.dispatched
    /\ Len(ev.cbs) = Cardinality(Controls)
    /\ \E c \in Controls : is_validation_err(ev.vs0[c])

\* C7: a submit handler whose event is not default-prevented runs the
\* validation callback of every control, so that afterwards the state of
\* every visible control with a validation_fn that is not in ParseError
\* reports the validation_fn's result on the current FormData.
C7_SweepRunsEveryCallback ==
    (ev.op \in SubmitOps /\ ~ev.was_prevented) =>
        \A c \in Controls :
            /\ \E i \in 1..Len(ev.cbs) : CbCtl(i) = c
            /\ (/\ Visible(c, fd, cx)
                /\ HasValidation(c)
                /\ ~is_parse_err(vstate[c])) =>
                   vstate[c] = Reported(validation_fn(c, fd))

\* C8: a run of the Effect of a control whose state is ValidationError and
\* whose validation_fn now returns Ok leaves the state Passed; and whenever a
\* control is in ValidationError while its validation_fn returns Ok on the
\* FormData, a run of its Effect is pending.
C8_SelfHealing ==
    /\ (/\ ev.op = "Effect"
        /\ is_validation_err(ev.vs0[ev.c])
        /\ validation_fn(ev.c, fd).ok) => vstate[ev.c] = Passed
    /\ \A c \in Controls :
           (is_validation_err(vstate[c]) /\ validation_fn(c, fd).ok) =>
               dirty[c]

C8_Witness ==
    /\ ev.op = "Effect"
    /\ ev.c = 2
    /\ is_validation_err(ev.vs0[2])
    /\ vstate[2] = Passed
    /\ ev.fd0 = fd

\* C9 as stated: once every Effect has run, the display value of every
\* control is unparse(getter(FormData)), in every state of the control.
C9_DisplayFollowsFormData ==
    Quiescent =>
        \A c \in Controls : value[c] = unparse_fn(c, getter(c, fd))

\* C9 amended: once the Effect of a control has run, the display value of
\* the control is unparse(getter(FormData)) unless the control's state is
\* ParseError.
C9_DisplayFollowsUnlessParseError ==
    \A c \in Controls :
        (~dirty[c] /\ ~is_parse_err(vstate[c])) =>
            value[c] = unparse_fn(c, getter(c, fd))

C9_Witness ==
    /\ ev.op = "Effect"
    /\ is_validation_err(vstate[ev.c])
    /\ ~dirty[ev.c]
    /\ value[ev.c] = unparse_fn(ev.c, getter(ev.c, fd))
    /\ \E k \in Controls : is_parse_err(vstate[k]) /\
           value[k] # unparse_fn(k, getter(k, fd))

\* C10: a step that changes the state of a control that is in ParseError is
\* a call of that control's own value setter.
C10_ParseErrorLeftOnlyByEdit ==
    [][\A c \in Controls :
           (is_parse_err(vstate[c]) /\ vstate'[c] # vstate[c]) =>
               (ev'.op = "value_setter" /\ ev'.c = c)]_vars

C10_Witness ==
    /\ ev.op = "Effect"
    /\ is_parse_err(vstate[ev.c])
    /\ value[ev.c] # unparse_fn(ev.c, getter(ev.c, fd))

\* the kinds of state the last handler took control c from and to
Kind0(c) == ev.vs0[c].k

Kind(c) == vstate[c].k

ListedTransitions ==
    {<<"Passed", "ParseError">>, <<"Passed", "ValidationError">>,
     <<"ParseError", "Passed">>, <<"ParseError", "ValidationError">>,
     <<"ValidationError", "Passed">>}

\* C11 as stated: the state of every control is Passed when the form is
\* built, and every handler leaves the kind of state of every control as it
\* was or takes one of the five listed transitions.
C11_ListedTransitionsOnly ==
    /\ ev.op = "build" => \A c \in Controls : vstate[c] = Passed
    /\ \A c \in Controls :
           Kind(c) # Kind0(c) => <<Kind0(c), Kind(c)>> \in ListedTransitions

\* C11 amended: the state of every control is Passed when the form is built,
\* and every handler leaves the kind of state of every control as it was,
\* takes one of the five listed transitions, or takes ValidationError to
\* ParseError, which only the control's own value setter does, on a raw value
\* that fails to parse.
C11_TransitionsWithReedit ==
    /\ ev.op = "build" => \A c \in Controls : vstate[c] = Passed
    /\ \A c \in Controls :
           Kind(c) # Kind0(c) =>
               \/ <<Kind0(c), Kind(c)>> \in ListedTransitions
               \/ /\ <<Kind0(c), Kind(c)>> = <<"ValidationError", "ParseError">>
                  /\ ev.op = "value_setter"
                  /\ ev.c = c
                  /\ ~EvParse.ok

C11_Witness ==
    /\ ev.op = "value_setter"
    /\ is_validation_err(ev.vs0[ev.c])
    /\ is_parse_err(vstate[ev.c])
    /\ \E k \in Controls \ {ev.c} : is_validation_err(vstate[k])

\* the controls of a list of items, groups included, in declaration order
RECURSIVE Leaves(_)
Leaves(items) ==
    IF Len(items) = 0 THEN <<>>
    ELSE LET it == Head(items)
             mine == CASE it.t = "control" -> <<it.c>>
                       [] it.t = "group" -> Leaves(it.items)
                       [] OTHER -> <<>>
         IN  mine \o Leaves(Tail(items))

\* the group of the form: its position in the form's callback list and the
\* leaf callbacks that run before it
GroupAt == CHOOSE i \in 1..Len(render_fns) : render_fns[i].t = "group"

TheGroup == render_fns[GroupAt]

GroupTop == Cardinality({i \in 1..GroupAt : render_fns[i].t # "vanity"})

LeavesBefore == Len(Leaves(SubSeq(render_fns, 1, GroupAt - 1)))

\* C12: when a sweep calls the group's callback, the callback of every control
\* of the group, nested groups included, is called exactly once, in
\* declaration order, also after one of them returned false; the group
\* returns true exactly when every one of them returned true (the empty
\* nested group contributes true).
C12_GroupRunsEveryChild ==
    (ev.op \in SubmitOps /\ Len(ev.tops) = GroupTop) =>
        /\ Len(ev.cbs) = LeavesBefore + Len(Leaves(TheGroup.items))
        /\ \A i \in 1..Len(Leaves(TheGroup.items)) :
               CbCtl(LeavesBefore + i) = Leaves(TheGroup.items)[i]
        /\ ev.tops[GroupTop] =
               (\A i \in 1..Len(Leaves(TheGroup.items)) :
                    CbRet(LeavesBefore + i))

C12_Witness ==
    /\ ev.op \in SubmitOps
    /\ Len(ev.tops) = GroupTop
    /\ ev.cbs = <<(<<1, TRUE>>), (<<2, FALSE>>), (<<3, FALSE>>)>>
    /\ ev.vs0[3] = Passed
    /\ is_validation_err(vstate[3])
    /\ ~ev.tops[GroupTop]

\* the positions of the validator list whose function fails on the FormData
Failing(L) == {i \in 1..Len(L) : ~pushed_fn(L[i], fd, cx).res.ok}

C14_WrappedHonoursShowWhen ==
    ev.op = "validator" =>
        \A i \in 1..Len(ev.fns) :
            LET c == ev.fns[i]
            IN  (HasValidation(c) /\ HasShowWhen(c)) =>
                    IF ~show_when(c, fd, cx)
                    THEN /\ ~InSeq(c, ev.vcalls)
                         /\ i = Len(ev.fns) => ev.res = Ok
                    ELSE /\ InSeq(c, ev.vcalls)
                         /\ i < Len(ev.fns) => validation_fn(c, fd).ok
                         /\ i = Len(ev.fns) => ev.res = validation_fn(c, fd)

C14_Witness ==
    /\ ev.op = "validator"
    /\ fb.validations = <<3, 3>>
    /\ ~show_when(3, fd, cx)
    /\ ~validation_fn(3, fd).ok
    /\ ev.fns = <<3, 3>>
    /\ ev.vcalls = <<>>
    /\ ev.res = Ok

\* C15: no validation callback, whole-form validation or run of an Effect
\* runs the validation_fn of a control whose show_when is false on the
\* FormData it runs on.
C15_NoValidationWhileHidden ==
    ev.op \in SubmitOps \cup {"validation_cb", "validate", "validator", "Effect"} =>
        \A i \in 1..Len(ev.vcalls) : Visible(ev.vcalls[i], fd, cx)

MissingPiece(b) ==
    IF ~b.getter THEN "missing getter function"
    ELSE IF ~b.setter THEN "missing setter function"
    ELSE IF ~b.parse_fn THEN "missing parse function"
    ELSE "missing unparse function"

AllSet(b) == b.getter /\ b.setter /\ b.parse_fn /\ b.unparse_fn

\* C17: new_control with a builder that has getter, setter, parse and unparse
\* pushes the control's render function and does not panic; with any other
\* builder it panics with a message that holds the name of the control type
\* and ends with the first missing piece, and has pushed no validation and no
\* render function.  new_vanity pushes a render function and does not panic.
C17_BuildErrors ==
    /\ ev.op = "new_control" =>
           IF AllSet(ev.b)
           THEN /\ fb.panic = <<>>
                /\ fb.render_fns = Append(ev.fb0.render_fns, Ctl(ev.b.c))
           ELSE /\ fb.panic # <<>>
                /\ InSeq(ev.b.t, fb.panic)
                /\ fb.panic[Len(fb.panic)] = MissingPiece(ev.b)
                /\ fb.validations = ev.fb0.validations
                /\ fb.render_fns = ev.fb0.render_fns
    /\ ev.op = "new_vanity" =>
           /\ fb.panic = <<>>
           /\ fb.render_fns = Append(ev.fb0.render_fns, Vanity)

\* C18: a validation callback of a visible control without validation_fn
\* returns true exactly when the control's state is not ParseError; and the
\* state of such a control is ParseError exactly when its last edit failed to
\* parse: it is never ValidationError, its value setter leaves ParseError
\* exactly on a parse failure, and no other handler changes it.
C18_NoValidatorPasses ==
    /\ \A i \in 1..Len(ev.cbs) :
           (~HasValidation(CbCtl(i)) /\ Visible(CbCtl(i), fd, cx)) =>
               (CbRet(i) <=> ~is_parse_err(ev.vs0[CbCtl(i)]))
    /\ \A c \in Controls :
           ~HasValidation(c) =>
               /\ ~is_validation_err(vstate[c])
               /\ IF ev.op = "value_setter" /\ ev.c = c
                  THEN is_parse_err(vstate[c]) <=> ~EvParse.ok
                  ELSE vstate[c] = ev.vs0[c]

C18_Witness ==
    /\ ev.op \in SubmitOps
    /\ Len(ev.cbs) = 3
    /\ ~HasValidation(CbCtl(1))
    /\ CbRet(1)
    /\ ~ev.ret
    /\ is_parse_err(vstate[2])

\* the states a control in state s may be in when its callback is called
\* again with no edit and no FormData change: s, or what a run of its Effect
\* leaves
AfterEffects(c, s) == {s, Effect(c, s, value[c], fd).st}

\* C19: right after a call of the validation callback of a control, a second
\* call, with or without a run of the control's Effect in between, returns
\* what the first returned and leaves the state the first left.
C19_CallbackIdempotent ==
    ev.op = "validation_cb" =>
        \A s \in AfterEffects(ev.c, vstate[ev.c]) :
            /\ validation_cb(ev.c, s, fd, cx).ret = ev.ret
            /\ validation_cb(ev.c, s, fd, cx).st = vstate[ev.c]

C19_Witness ==
    /\ ev.op = "validation_cb"
    /\ ev.vs0[ev.c] = Passed
    /\ is_validation_err(vstate[ev.c])
    /\ dirty[ev.c]
    /\ ~ev.ret
    /\ ~validation_cb(ev.c, vstate[ev.c], fd, cx).ret

\* C20: Form::validate and FormValidator::validate leave the FormData and
\* the state of every control as they were; a handler that changes the state
\* of a control is that control's value setter, a run of its Effect, or a
\* callback call or sweep that called its validation callback.
C20_ValidateWritesNothing ==
    /\ ev.op \in {"validate", "validator"} => (vstate = ev.vs0 /\ fd = ev.fd0)
    /\ \A c \in Controls :
           vstate[c] # ev.vs0[c] =>
               \/ ev.op \in {"value_setter", "Effect"} /\ ev.c = c
               \/ /\ ev.op \in SubmitOps \cup {"validation_cb"}
                  /\ \E i \in 1..Len(ev.cbs) : CbCtl(i) = c

C20_Witness ==
    /\ ev.op = "validate"
    /\ ev.res = Err("b exceeds a")
    /\ vstate[2] = Passed
    /\ is_parse_err(vstate[1])

\* the controls of cs that have a validation_fn, in the order of cs
WithValidation(cs) == SelectSeq(cs, HasValidation)

\* the controls whose leaf callback the last sweep called, in call order
CbCtls == [i \in 1..Len(ev.cbs) |-> CbCtl(i)]

\* C21: the validator list of a builder holds the controls that have a
\* validation_fn in declaration order, the controls of a group (nested groups
\* included) at the position of the group call and in their own declaration
\* order: new_control appends its control, group appends the group's list;
\* and a sweep of the form rendered from the builder calls the leaf callbacks
\* in declaration order, all of them when it returns true.
C21_DeclarationOrder ==
    /\ fb.validations = WithValidation(Leaves(fb.render_fns))
    /\ ev.op = "new_control" =>
           fb.validations = ev.fb0.validations \o WithValidation(<<ev.b.c>>)
    /\ ev.op = "group" =>
           /\ ev.g.validations = WithValidation(Leaves(ev.g.render_fns))
           /\ fb.validations = ev.fb0.validations \o ev.g.validations
           /\ Leaves(fb.render_fns) =
                  Leaves(ev.fb0.render_fns) \o Leaves(ev.g.render_fns)
    /\ ev.op = "submit_form" =>
           /\ Len(ev.cbs) <= Len(Leaves(fb.render_fns))
           /\ CbCtls = SubSeq(Leaves(fb.render_fns), 1, Len(ev.cbs))
           /\ ev.ret => Len(ev.cbs) = Len(Leaves(fb.render_fns))

C21_Witness ==
    /\ ev.op = "submit_form"
    /\ Len(fb.render_fns) = 3
    /\ fb.render_fns[1] = Ctl(3)
    /\ fb.render_fns[2] = Group(<<Ctl(2), Vanity, Group(<<Ctl(3), Ctl(2)>>)>>)
    /\ fb.render_fns[3] = Ctl(2)
    /\ fb.validations = <<3, 2, 3, 2, 2>>
    /\ CbCtls = <<3, 2, 3, 2, 2>>
    /\ ev.ret

\* the leaf callbacks of the form rendered from items: what a call of every
\* callback of the form's list calls
AllCbs(items) ==
    GroupCb(items, Run0([c \in Controls |-> Passed]), TRUE, fd, cx).r.cbs

\* items without its vanity controls, those of groups included
RECURSIVE WithoutVanity(_)
WithoutVanity(items) ==
    IF Len(items) = 0 THEN <<>>
    ELSE LET it == Head(items)
             mine == CASE it.t = "control" -> <<it>>
                       [] it.t = "group" -> <<Group(WithoutVanity(it.items))>>
                       [] OTHER -> <<>>
         IN  mine \o WithoutVanity(Tail(items))

\* C22: new_vanity adds no leaf callback and no entry to the validator list,
\* new_control adds one leaf callback and group those of its controls, so
\* that a built form has one leaf callback per interactive control declared
\* and no more validator entries than that; a sweep of the form calls what a
\* sweep of the form without its vanity controls calls, with the same result,
\* so a sweep that fails has a control's callback that returned false, and a
\* validate that fails has run the function of a control with a
\* validation_fn.
C22_VanityContributesNothing ==
    /\ Len(AllCbs(fb.render_fns)) = Len(Leaves(fb.render_fns))
    /\ Len(fb.validations) <= Len(Leaves(fb.render_fns))
    /\ ev.op = "new_vanity" =>
           /\ AllCbs(fb.render_fns) = AllCbs(ev.fb0.render_fns)
           /\ fb.validations = ev.fb0.validations
           /\ WithoutVanity(fb.render_fns) = WithoutVanity(ev.fb0.render_fns)
    /\ (ev.op = "new_control" /\ fb.panic = <<>>) =>
           Len(AllCbs(fb.render_fns)) = Len(AllCbs(ev.fb0.render_fns)) + 1
    /\ ev.op = "group" =>
           Len(AllCbs(fb.render_fns)) =
               Len(AllCbs(ev.fb0.render_fns)) + Len(Leaves(ev.g.render_fns))
    /\ ev.op = "submit_form" =>
           LET o == Sweep(WithoutVanity(fb.render_fns), Run0(ev.vs0), <<>>,
                          fd, cx)
           IN  /\ ev.ret = o.ret
               /\ ev.cbs = o.r.cbs
               /\ ev.tops = o.tops
               /\ vstate = o.r.vs
               /\ ~ev.ret => \E i \in 1..Len(ev.cbs) : ~CbRet(i)
    /\ (ev.op = "validator" /\ ~ev.res.ok) =>
           /\ ev.fns # <<>>
           /\ HasValidation(ev.fns[Len(ev.fns)])
           /\ InSeq(ev.fns[Len(ev.fns)], Leaves(fb.render_fns))
           /\ ev.res = validate(WithValidation(Leaves(WithoutVanity(fb.render_fns))),
                                fd, cx).res

C22_Witness ==
    /\ ev.op = "submit_form"
    /\ fb.render_fns =
           <<Vanity, Group(<<Ctl(2), Vanity, Group(<<Ctl(3), Ctl(2)>>)>>),
             Vanity>>
    /\ Len(fb.validations) = 3
    /\ Len(ev.cbs) = 3
    /\ ~ev.ret

RoundTrip ==
    \A v \in 0..MaxRoundTrip :
        FromStr(to_string(v), MaxRoundTrip) = ParseOk(v)

\* C24 as stated: parse(unparse(v)) = Ok(v) for every value v of the field
\* type; and a value setter call that is handed the control's display value
\* leaves the FormData as it was.
C24_RoundTripResubmit ==
    /\ RoundTrip
    /\ \A c \in Controls : \A v \in FieldVals(c) :
           parse_fn(c, unparse_fn(c, v)) = ParseOk(v)
    /\ (ev.op = "value_setter" /\ ev.raw = value[ev.c]) => fd = ev.fd0

\* C24 amended: parse(unparse(v)) = Ok(v) for every value v of the field
\* type, so a value setter call that is handed unparse(v) sets the field to
\* v; and a value setter call that is handed the control's display value
\* leaves the FormData as it was when the control's state before the call was
\* not ParseError.
C24_RoundTripResubmitUnlessParseError ==
    /\ RoundTrip
    /\ \A c \in Controls : \A v \in FieldVals(c) :
           parse_fn(c, unparse_fn(c, v)) = ParseOk(v)
    /\ ev.op = "value_setter" =>
           \A v \in FieldVals(ev.c) :
               ev.raw = unparse_fn(ev.c, v) =>
                   (ev.set /\ fd = setter(ev.c, ev.fd0, v))
    /\ (/\ ev.op = "value_setter"
        /\ ev.raw = value[ev.c]
        /\ ~is_parse_err(ev.vs0[ev.c])) => fd = ev.fd0

C24_Witness ==
    /\ ev.op = "value_setter"
    /\ ev.raw = value[ev.c]
    /\ is_validation_err(ev.vs0[ev.c])
    /\ ev.set
    /\ fd = ev.fd0
    /\ getter(ev.c, fd) = MaxVal

\* the functions of the builder that fail on the FormData
VbFailing ==
    {i \in 1..Len(fb.functions) :
         ~ValidationBuilderFn(fb.functions[i], fd.kind, fb.name, fd.v).ok}

\* C25: the function ValidationBuilder::build returns calls the builder's
\* functions on the field in the order they were added; when none fails it
\* has called every one and returns Ok; otherwise it returns the Err of the
\* first that fails and has called none after it.  A required check fails
\* exactly on the empty string of a str field and on None of an Option field,
\* and its message is the field's name followed by " is required".
C25_FirstFailingCheck ==
    ev.op = "build" =>
        LET F == fb.functions
            r(i) == ValidationBuilderFn(F[i], fd.kind, fb.name, fd.v)
        IN  /\ ev.res.ok <=> VbFailing = {}
            /\ VbFailing = {} =>
                   (ev.res = Ok /\ ev.calls = [i \in 1..Len(F) |-> i])
            /\ \A i \in VbFailing :
                   (\A j \in VbFailing : i <= j) =>
                       (ev.res = r(i) /\ ev.calls = [k \in 1..i |-> k])
            /\ \A i \in 1..Len(F) :
                   F[i].t = "required" =>
                       /\ ~r(i).ok <=>
                              IF fd.kind = "str" THEN fd.v = <<>>
                              ELSE fd.v = None
                       /\ ~r(i).ok => r(i).m = <<fb.name, " is required">>

C25_Witness ==
    /\ ev.op = "build"
    /\ fb.name = "email"
    /\ Len(fb.functions) = 3
    /\ fb.functions[1].t = "required"
    /\ fb.functions[3].t = "required"
    /\ fd.v = <<" ">>
    /\ VbFailing = {2}
    /\ ev.calls = <<1, 2>>
    /\ ev.res = Err(<<"email", " must be >= ", 2, " characters">>)

\* the last handler called the validation callback of control c
CalledBack(c) ==
    /\ ev.op \in SubmitOps \cup {"validation_cb"}
    /\ \E i \in 1..Len(ev.cbs) : CbCtl(i) = c

\* C26: a write of the FormData by application code and the value setter of
\* another control leave the state of a control as it was; a run of an Effect
\* leaves the state as it was or Passed, and the states of the other controls
\* as they were; so a control that was Passed is in another state only after
\* its own value setter or a call of its validation callback, whatever its
\* validation_fn returns on the FormData.
C26_PassedStaysWithoutOwnEvent ==
    /\ ev.op = "write_fd" => vstate = ev.vs0
    /\ ev.op = "value_setter" =>
           \A c \in Controls \ {ev.c} : vstate[c] = ev.vs0[c]
    /\ ev.op = "Effect" =>
           /\ vstate[ev.c] \in {ev.vs0[ev.c], Passed}
           /\ \A c \in Controls \ {ev.c} : vstate[c] = ev.vs0[c]
    /\ \A c \in Controls :
           (ev.vs0[c] = Passed /\ vstate[c] # Passed) =>
               \/ ev.op = "value_setter" /\ ev.c = c
               \/ CalledBack(c)

C26_Witness ==
    /\ ev.op = "Effect"
    /\ ev.c = 2
    /\ Quiescent
    /\ vstate[2] = Passed
    /\ value[2] = unparse_fn(2, getter(2, fd))
    /\ ~validation_fn(2, fd).ok

\* what Form::validate returns on the current FormData
FormValidateNow == validate(validations(render_fns), fd, cx).res

\* C27: after a submit sweep that was not default-prevented, on the FormData
\* the sweep ran on: when every callback returned true, Form::validate
\* returns Ok; when Form::validate returns Ok and the sweep failed, a callback
\* of a visible control in ParseError returned false; so the sweep succeeds
\* exactly when Form::validate returns Ok and no visible control is in
\* ParseError.
C27_SweepImpliesValidate ==
    (ev.op \in SubmitOps /\ ~ev.was_prevented) =>
        /\ fd = ev.fd0
        /\ ev.ret => FormValidateNow.ok
        /\ (FormValidateNow.ok /\ ~ev.ret) =>
               \E i \in 1..Len(ev.cbs) :
                   /\ ~CbRet(i)
                   /\ Visible(CbCtl(i), fd, cx)
                   /\ is_parse_err(vstate[CbCtl(i)])
        /\ ev.ret <=>
               /\ FormValidateNow.ok
               /\ \A c \in Controls :
                      Visible(c, fd, cx) => ~is_parse_err(vstate[c])

C27_Witness ==
    /\ ev.op \in SubmitOps
    /\ ev.ret
    /\ ev.on_submit
    /\ ~Visible(3, fd, cx)
    /\ ~validation_fn(3, fd).ok
    /\ is_parse_err(vstate[3])
    /\ FormValidateNow = Ok

\* the display value of every control that is not in ParseError is the
\* unparse of its field
DisplayFresh ==
    \A c \in Controls :
        ~is_parse_err(vstate[c]) => value[c] = unparse_fn(c, getter(c, fd))

\* C28: in every state in which no Effect is pending, the display value of
\* every control that is not in ParseError is unparse(getter(FormData)); and
\* no step taken while a control is in ParseError changes its display value,
\* a step that changes the FormData included.
C28_DisplayFrozenInParseError ==
    /\ [](Quiescent => DisplayFresh)
    /\ [][\A c \in Controls :
              is_parse_err(vstate[c]) => value'[c] = value[c]]_vars

C28_Witness ==
    /\ Quiescent
    /\ ev.op = "Effect"
    /\ \E c \in Controls :
           /\ is_parse_err(vstate[c])
           /\ value[c] # unparse_fn(c, getter(c, fd))
    /\ \E k \in Controls :
           /\ is_validation_err(vstate[k])
           /\ value[k] = unparse_fn(k, getter(k, fd))

\* the last handler was an edit of control c
OwnEdit(c) == ev.op = "value_setter" /\ ev.c = c

\* C29: a handler that hides or shows a control leaves the control's state as
\* it was; and a handler other than the control's own value setter that runs
\* while the control is hidden, or hides or shows it, leaves its state as it
\* was, ParseError included, except that a run of the control's Effect takes
\* a ValidationError to Passed.  So the state of a control that is shown
\* again without an edit is the state it had when it was hidden, or Passed in
\* place of a ValidationError.
C29_StateKeptWhileHidden ==
    \A c \in Controls :
        /\ (Visible(c, ev.fd0, cx) # Visible(c, fd, cx)) =>
               vstate[c] = ev.vs0[c]
        /\ (/\ ~Visible(c, ev.fd0, cx) \/ ~Visible(c, fd, cx)
            /\ ~OwnEdit(c)) =>
               \/ vstate[c] = ev.vs0[c]
               \/ /\ ev.op = "Effect"
                  /\ ev.c = c
                  /\ is_validation_err(ev.vs0[c])
                  /\ vstate[c] = Passed

C29_Witness ==
    /\ ev.op \in {"write_fd", "value_setter"}
    /\ ~OwnEdit(3)
    /\ ~Visible(3, ev.fd0, cx)
    /\ Visible(3, fd, cx)
    /\ is_parse_err(vstate[3])
    /\ vstate[2] = Passed

\* C30: a run of an Effect writes the state only to take a ValidationError to
\* Passed, and only such a run notifies the Effect again; the run that
\* follows starts from Passed and writes nothing; and whenever an Effect is
\* pending, a state in which none is pending follows.
C30_EffectsReachQuiescence ==
    /\ [](ev.op = "Effect" =>
              /\ vstate[ev.c] # ev.vs0[ev.c] =>
                     (is_validation_err(ev.vs0[ev.c]) /\ vstate[ev.c] = Passed)
              /\ dirty[ev.c] =>
                     (is_validation_err(ev.vs0[ev.c]) /\ vstate[ev.c] = Passed)
              /\ ~is_validation_err(ev.vs0[ev.c]) => ~dirty[ev.c])
    /\ (~Quiescent ~> Quiescent)

C30_Witness ==
    /\ ev.op = "Effect"
    /\ ev.vs0[ev.c] = Passed
    /\ Quiescent
    /\ \E k \in Controls \ {ev.c} : is_validation_err(vstate[k])
    /\ \E k \in Controls : is_parse_err(vstate[k])

====
